---- MODULE Spec2Model ----
(***************************************************************************)
(* ShoeRecommender (core/recommender.py): the normalisation of a raw       *)
(* product batch into the table self.df, and recommend(), the filter /     *)
(* score / sort / truncate pipeline that is run against that table.        *)
(*                                                                         *)
(* Text is a sequence of one-character strings, so that lower(), split(),  *)
(* strip(), replace(), endswith(), the substring test and float() are      *)
(* computed character by character.  Numbers that stand for shoe sizes are *)
(* integers in hundredths of a size (9.5 is 950, the 0.01 of the score     *)
(* test is 1, the 0.5 of the size interval is 50); the texts the model     *)
(* feeds to float() carry at most two fractional digits.                   *)
(***************************************************************************)
EXTENDS Integers, Sequences, FiniteSets, TLC

VARIABLES
  raw,       \* the batch the query of _load_data fetched
  lib,       \* the pandas installed: "strict" or "lenient" about empty frames
  ctor,      \* "new", "ok" once __init__ returned, "raised" once it raised
  self_df,   \* self.df
  snapshot,  \* what _load_data returned, kept for comparison
  last,      \* the latest recommend() call: its arguments and outcome
  calls,     \* the recommend() calls of concurrent callers
  sz         \* a size text and a target run through _filter_by_size alone

vars == <<raw, lib, ctor, self_df, snapshot, last, calls, sz>>

(***************************************************************************)
(* Python values held in cells and arguments.  Every value has the same    *)
(* fields: t the type tag, s the characters of a str, n the number (or the *)
(* truth value of a bool), l the items of a list of str, o the entries of  *)
(* a dict, j what json.loads makes of a str.                               *)
(***************************************************************************)
Val(t, s, n, l, o, j) == [t |-> t, s |-> s, n |-> n, l |-> l, o |-> o, j |-> j]

None == Val("none", <<>>, 0, <<>>, <<>>, "")
NaN == Val("nan", <<>>, 0, <<>>, <<>>, "")
Str(s) == Val("str", s, 0, <<>>, <<>>, "bad")
Num(n) == Val("num", <<>>, n, <<>>, <<>>, "")
Bool(b) == Val("bool", <<>>, IF b THEN 1 ELSE 0, <<>>, <<>>, "")
StrList(l) == Val("list", <<>>, 0, l, <<>>, "")
Dict(o) == Val("dict", <<>>, 0, <<>>, o, "")
\* a str whose text is JSON of kind j ("blank", "bad", "object", "list",
\* "number"); s is the text's first character, o the members of an object
JsonText(s, j, o) == Val("str", s, 0, <<>>, o, j)
\* a Python list that is not a list of str (what json.loads makes of "[...]")
PyList == Val("pylist", <<>>, 0, <<>>, <<>>, "")
\* an object pandas stored in a cell without looking into it
Opaque == Val("obj", <<>>, 0, <<>>, <<>>, "")

IsStr(v) == v.t = "str"
IsNull(v) == v.t \in {"none", "nan"}

(***************************************************************************)
(* str methods                                                             *)
(***************************************************************************)
Upper == <<"A","B","C","D","E","F","G","H","I","J","K","L","M",
           "N","O","P","Q","R","S","T","U","V","W","X","Y","Z">>
LowerLetters == <<"a","b","c","d","e","f","g","h","i","j","k","l","m",
           "n","o","p","q","r","s","t","u","v","w","x","y","z">>
Digits == <<"0","1","2","3","4","5","6","7","8","9">>

Range(f) == {f[i] : i \in DOMAIN f}
IndexOf(seq, x) == CHOOSE i \in DOMAIN seq : seq[i] = x
Least(S) == CHOOSE x \in S : \A y \in S : x <= y

LowerChar(c) == IF c \in Range(Upper) THEN LowerLetters[IndexOf(Upper, c)] ELSE c
\* str.lower()
Lower(s) == [i \in 1..Len(s) |-> LowerChar(s[i])]

\* needle in hay, for two str
Contains(hay, needle) ==
  \E i \in 0..(Len(hay) - Len(needle)) : SubSeq(hay, i + 1, i + Len(needle)) = needle

IsSpace(c) == c = " "

RECURSIVE LStrip(_)
LStrip(s) == IF s # <<>> /\ IsSpace(Head(s)) THEN LStrip(Tail(s)) ELSE s
RECURSIVE RStrip(_)
RStrip(s) ==
  IF s # <<>> /\ IsSpace(s[Len(s)]) THEN RStrip(SubSeq(s, 1, Len(s) - 1)) ELSE s
\* str.strip()
Strip(s) == RStrip(LStrip(s))

\* str.endswith(c) for a one-character c
EndsWith(s, c) == s # <<>> /\ s[Len(s)] = c

\* str.replace(c, '')
RemoveChar(s, c) == SelectSeq(s, LAMBDA x : x # c)

\* str.split(c): the pieces between the occurrences of c
RECURSIVE SplitFrom(_, _, _, _)
SplitFrom(s, c, i, cur) ==
  IF i > Len(s) THEN <<cur>>
  ELSE IF s[i] = c THEN <<cur>> \o SplitFrom(s, c, i + 1, <<>>)
  ELSE SplitFrom(s, c, i + 1, Append(cur, s[i]))
Split(s, c) == SplitFrom(s, c, 1, <<>>)

IsDigit(c) == c \in Range(Digits)
DigitVal(c) == IndexOf(Digits, c) - 1

RECURSIVE DigitsValue(_)
DigitsValue(s) ==
  IF s = <<>> THEN 0 ELSE 10 * DigitsValue(SubSeq(s, 1, Len(s) - 1)) + DigitVal(s[Len(s)])

AllDigits(s) == \A i \in 1..Len(s) : IsDigit(s[i])

\* the fractional digits of a decimal literal, in hundredths
Hundredths(frac) ==
  IF frac = <<>> THEN 0
  ELSE IF Len(frac) = 1 THEN 10 * DigitVal(frac[1])
  ELSE 10 * DigitVal(frac[1]) + DigitVal(frac[2])

Parsed(n) == [ok |-> TRUE, n |-> n]
NotParsed == [ok |-> FALSE, n |-> 0]

\* an unsigned decimal literal split at its dots: digits, digits., digits.digits, .digits
FloatOfParts(parts) ==
  IF Len(parts) = 1 /\ parts[1] # <<>> /\ AllDigits(parts[1])
    THEN Parsed(100 * DigitsValue(parts[1]))
  ELSE IF Len(parts) = 2 /\ AllDigits(parts[1]) /\ AllDigits(parts[2])
          /\ (parts[1] # <<>> \/ parts[2] # <<>>)
    THEN Parsed(100 * DigitsValue(parts[1]) + Hundredths(parts[2]))
  ELSE NotParsed

UnsignedFloat(s) == FloatOfParts(Split(s, "."))
Negated(f) == [ok |-> f.ok, n |-> 0 - f.n]

\* float of a stripped text with its optional sign
SignedFloat(t) ==
  IF t # <<>> /\ t[1] = "-" THEN Negated(UnsignedFloat(Tail(t)))
  ELSE IF t # <<>> /\ t[1] = "+" THEN UnsignedFloat(Tail(t))
  ELSE UnsignedFloat(t)

\* float(s) for a str s: surrounding blanks and one sign are accepted;
\* ok = FALSE stands for the ValueError
FloatOfStr(s) == SignedFloat(Strip(s))

\* float(v) for any value: a number is itself, a str is parsed, anything
\* else is a TypeError
Float(v) ==
  IF v.t = "num" THEN Parsed(v.n)
  ELSE IF v.t = "str" THEN FloatOfStr(v.s)
  ELSE NotParsed

\* str(v) of a cell of a text column: the text itself, 'None' for None and
\* 'nan' for NaN (the modelled batches hold no other type in those columns)
StrOf(v) ==
  IF v.t = "str" THEN v.s
  ELSE IF v.t = "none" THEN <<"N","o","n","e">>
  ELSE IF v.t = "nan" THEN <<"n","a","n">>
  ELSE <<"?">>

(***************************************************************************)
(* DataFrames: the column labels in order (a label may occur twice) and    *)
(* the rows, each a sequence of cells aligned with the labels.             *)
(***************************************************************************)
Frame(cols, rows) == [cols |-> cols, rows |-> rows]

ColPos(f, c) == {i \in 1..Len(f.cols) : f.cols[i] = c}
HasCol(f, c) == \E i \in 1..Len(f.cols) : f.cols[i] = c
OneCol(f, c) == Cardinality(ColPos(f, c)) = 1
\* row[c] where the label c occurs once
Cell(f, row, c) == row[CHOOSE i \in 1..Len(f.cols) : f.cols[i] = c]
\* row.get(c, default)
CellOr(f, row, c, default) == IF HasCol(f, c) THEN Cell(f, row, c) ELSE default

RECURSIVE KeepFrom(_, _, _)
KeepFrom(seq, keep, i) ==
  IF i > Len(seq) THEN <<>>
  ELSE (IF i \in keep THEN <<seq[i]>> ELSE <<>>) \o KeepFrom(seq, keep, i + 1)
\* the items of seq at the positions in keep, in order
KeepPos(seq, keep) == KeepFrom(seq, keep, 1)

KeepCols(f, keep) ==
  Frame(KeepPos(f.cols, keep), [r \in 1..Len(f.rows) |-> KeepPos(f.rows[r], keep)])

\* df.drop(columns=[c])
DropCol(f, c) == KeepCols(f, (1..Len(f.cols)) \ ColPos(f, c))

\* pd.concat([f, g], axis=1) of two frames over the same index
ConcatCols(f, g) ==
  Frame(f.cols \o g.cols, [r \in 1..Len(f.rows) |-> f.rows[r] \o g.rows[r]])

\* df[c] = vals: a new label is appended, an existing one is overwritten
SetCol(f, c, vals) ==
  IF HasCol(f, c)
    THEN Frame(f.cols, [r \in 1..Len(f.rows) |->
                 [i \in 1..Len(f.cols) |-> IF f.cols[i] = c THEN vals[r] ELSE f.rows[r][i]]])
    ELSE Frame(Append(f.cols, c), [r \in 1..Len(f.rows) |-> Append(f.rows[r], vals[r])])

\* df[mask]: the rows whose position is in keep, in order
FilterRows(f, keep) == Frame(f.cols, KeepPos(f.rows, keep))

\* pd.DataFrame(columns=df.columns)
EmptyLike(f) == Frame(f.cols, <<>>)

(***************************************************************************)
(* Normalisation: _load_data builds a frame of the ten selected fields and *)
(* _preprocess_data runs the five steps over it.  Raised(f) is a step that *)
(* ended in an exception, Ok(f) one that returned frame f.                 *)
(***************************************************************************)
RawColumns == <<"product_id", "product_name", "partner_id", "category", "size",
                "color", "quantity", "options", "vendor", "metadata">>

\* one fetched record: the fields the batches of the model vary; the partner
\* and the category are those of the WHERE clause, size and color are NULL
RawRow(r) == <<r.product_id, r.product_name, Num(306), Str(<<"S","h","o","e","s">>),
               None, None, r.quantity, r.options, r.vendor, r.metadata>>

\* pd.DataFrame(data, columns=columns)
LoadFrame(batch) == Frame(RawColumns, [i \in 1..Len(batch) |-> RawRow(batch[i])])

Ok(f) == [ok |-> TRUE, df |-> f]
Raised(f) == [ok |-> FALSE, df |-> f]

StripAll(cs) == [i \in 1..Len(cs) |-> Strip(cs[i])]

\* the colours of a name split at its commas
ColorsOfParts(parts) ==
  IF Len(parts) >= 3 THEN StrList(StripAll(Split(Strip(parts[2]), "/")))
  ELSE StrList(<<>>)

\* _split_colors: name.split of anything but a str raises and gives []
SplitColors(name) ==
  IF IsStr(name) THEN ColorsOfParts(Split(name.s, ",")) ELSE StrList(<<>>)

\* _extract_color_from_name
ExtractColorFromName(f) ==
  SetCol(f, "color_from_name",
         [r \in 1..Len(f.rows) |-> SplitColors(Cell(f, f.rows[r], "product_name"))])

\* json.loads(text): ok = FALSE is the JSONDecodeError
JsonLoads(v) ==
  IF v.j = "object" THEN [ok |-> TRUE, v |-> Dict(v.o)]
  ELSE IF v.j = "list" THEN [ok |-> TRUE, v |-> PyList]
  ELSE IF v.j = "number" THEN [ok |-> TRUE, v |-> Num(v.n)]
  ELSE [ok |-> FALSE, v |-> None]

\* _parse_options: what json.loads returns is returned as it is
ParseOptions(v) ==
  IF IsStr(v)
    THEN IF Strip(v.s) = <<>> THEN Dict(<<>>)
         ELSE IF JsonLoads(v).ok THEN JsonLoads(v).v ELSE Dict(<<>>)
  ELSE IF v.t = "dict" THEN v
  ELSE Dict(<<>>)

Keys(d) == [i \in 1..Len(d.o) |-> d.o[i].k]
HasKey(d, k) == \E i \in 1..Len(d.o) : d.o[i].k = k
\* d.get(k)
DictGet(d, k) ==
  IF HasKey(d, k) THEN d.o[CHOOSE i \in 1..Len(d.o) : d.o[i].k = k].v ELSE None

\* the labels of a list of dicts, each at its first appearance
RECURSIVE UnionKeys(_, _)
UnionKeys(ds, acc) ==
  IF ds = <<>> THEN acc
  ELSE UnionKeys(Tail(ds),
                 acc \o SelectSeq(Keys(Head(ds)), LAMBDA k : k \notin Range(acc)))

Max(a, b) == IF a >= b THEN a ELSE b
RECURSIVE MaxWidth(_)
MaxWidth(ps) ==
  IF ps = <<>> THEN 0
  ELSE Max(IF Head(ps).t = "dict" THEN Len(Head(ps).o) ELSE 1, MaxWidth(Tail(ps)))

PosLabels == <<"0", "1", "2", "3">>

\* a list of dicts under the labels ks: a missing key is NaN
FrameOfDicts(ps, ks) ==
  Frame(ks, [r \in 1..Len(ps) |->
               [c \in 1..Len(ks) |->
                  IF HasKey(ps[r], ks[c]) THEN DictGet(ps[r], ks[c]) ELSE NaN]])

\* a list of rows w wide: a list is one item long, a dict row gives its keys
FrameOfLists(ps, w) ==
  Frame(SubSeq(PosLabels, 1, w), [r \in 1..Len(ps) |->
     [c \in 1..w |->
        IF ps[r].t = "dict" /\ c > Len(ps[r].o) THEN None
        ELSE IF ps[r].t = "pylist" /\ c > 1 THEN None
        ELSE Opaque]])

\* pd.DataFrame(parsed.tolist(), index=df.index).  pandas decides by the
\* first element how to read the list: a dict makes it a list of dicts and
\* .keys() is then called on every element; a list makes it a list of rows,
\* len() of every element is taken and a dict row gives its keys; a number
\* makes it one column of objects.
FrameFromRecords(ps) ==
  IF ps = <<>> THEN Ok(Frame(<<>>, <<>>))
  ELSE IF ps[1].t = "dict"
    THEN IF \A i \in 1..Len(ps) : ps[i].t = "dict"
           THEN Ok(FrameOfDicts(ps, UnionKeys(ps, <<>>)))
           ELSE Raised(Frame(<<>>, <<>>))
  ELSE IF ps[1].t = "pylist"
    THEN IF \E i \in 1..Len(ps) : ps[i].t = "num"
           THEN Raised(Frame(<<>>, <<>>))
           ELSE Ok(FrameOfLists(ps, MaxWidth(ps)))
  ELSE Ok(Frame(<<"0">>, [r \in 1..Len(ps) |-> <<ps[r]>>]))

RECURSIVE DropCols(_, _)
DropCols(f, cs) == IF cs = <<>> THEN f ELSE DropCols(DropCol(f, Head(cs)), Tail(cs))

\* the conflict loop and the concat of _expand_options_columns
JoinOptions(f, built) ==
  IF built.ok THEN Ok(ConcatCols(DropCols(f, built.df.cols), built.df)) ELSE Raised(f)

\* _expand_options_columns
ExpandOptionsColumns(f) ==
  JoinOptions(f, FrameFromRecords(
      [r \in 1..Len(f.rows) |-> ParseOptions(Cell(f, f.rows[r], "options"))]))

SelectedKeys == <<"custom.color", "custom.model", "google.gender",
                  "my_fields.size", "my_fields.width">>

\* {k: meta_dict.get(k) ...}: .get on anything but a dict raises and is caught
ProjectMetadata(d) ==
  IF d.ok /\ d.v.t = "dict"
    THEN [c \in 1..Len(SelectedKeys) |-> DictGet(d.v, SelectedKeys[c])]
    ELSE [c \in 1..Len(SelectedKeys) |-> None]

\* _extract_metadata
ExtractMetadata(v) ==
  ProjectMetadata(IF IsStr(v) THEN JsonLoads(v) ELSE [ok |-> v.t = "dict", v |-> v])

\* _expand_metadata_columns: pd.DataFrame of an empty list has no columns
ExpandMetadataColumns(f) ==
  IF f.rows = <<>> THEN f
  ELSE ConcatCols(f, Frame(SelectedKeys,
         [r \in 1..Len(f.rows) |-> ExtractMetadata(Cell(f, f.rows[r], "metadata"))]))

\* the alternatives of the pattern \b(Women's|Men's|Unisex|Kids')\b, in order
GenderTokens == << <<"W","o","m","e","n","'","s">>, <<"M","e","n","'","s">>,
                   <<"U","n","i","s","e","x">>, <<"K","i","d","s","'">> >>
Unknown == <<"U","n","k","n","o","w","n">>

\* \w
IsWordChar(c) == c \in Range(Upper) \cup Range(LowerLetters) \cup Range(Digits) \cup {"_"}
WordAt(s, i) == i >= 1 /\ i <= Len(s) /\ IsWordChar(s[i])
\* \b between s[i] and s[i+1]
Boundary(s, i) == WordAt(s, i) # WordAt(s, i + 1)

TokenAt(s, i, tok) ==
  /\ i + Len(tok) - 1 <= Len(s)
  /\ SubSeq(s, i, i + Len(tok) - 1) = tok
  /\ Boundary(s, i - 1)
  /\ Boundary(s, i + Len(tok) - 1)

\* the positions of s where an alternative matches
GenderHits(s) ==
  {i \in 1..Len(s) : \E k \in 1..Len(GenderTokens) : TokenAt(s, i, GenderTokens[k])}

\* the first alternative that matches at position i
TokenMatching(s, i) ==
  GenderTokens[Least({k \in 1..Len(GenderTokens) : TokenAt(s, i, GenderTokens[k])})]

\* re.search: the leftmost match
SearchGender(s, hits) == IF hits = {} THEN Unknown ELSE TokenMatching(s, Least(hits))

\* _get_gender
GetGender(name) ==
  IF IsStr(name) THEN Str(SearchGender(name.s, GenderHits(name.s))) ELSE Str(Unknown)

\* _extract_gender
ExtractGender(f) ==
  SetCol(f, "gender_from_name",
         [r \in 1..Len(f.rows) |-> GetGender(Cell(f, f.rows[r], "product_name"))])

\* column_mapping
RenameLabel(c) ==
  CASE c = "Size" -> "size_from_options"
    [] c = "Color" -> "color_from_options"
    [] c = "Width" -> "width_from_options"
    [] c = "Model" -> "model_from_options"
    [] c = "first_word" -> "first_word_from_name"
    [] c = "Department" -> "gender_from_name"
    [] OTHER -> c

\* _standardize_columns: df.rename(columns=...)
StandardizeColumns(f) == Frame([i \in 1..Len(f.cols) |-> RenameLabel(f.cols[i])], f.rows)

\* the steps of _preprocess_data after the options were expanded
AfterOptions(f, opt) ==
  IF opt.ok THEN Ok(StandardizeColumns(ExtractGender(ExpandMetadataColumns(opt.df))))
  ELSE Raised(f)

\* _preprocess_data
PreprocessData(f) == AfterOptions(f, ExpandOptionsColumns(ExtractColorFromName(f)))

(***************************************************************************)
(* recommend().  A query is the arguments of one call: gender (a str),     *)
(* size (any value), width (None or a str), brands (the items of           *)
(* brand_preferences in dict order, each a brand with its 'models' and     *)
(* 'exclude' lists; a missing list is the empty one), colors and top_k.    *)
(* lib says which pandas is installed: releases differ in what they do     *)
(* with a frame that has no rows, "strict" ones raise where "lenient" ones *)
(* go on.                                                                  *)
(*                                                                         *)
(* A call works on st = [shared, local]: shared is the frame self.df       *)
(* names, local the frame the variable df names.                           *)
(***************************************************************************)
Returned(f) == [kind |-> "returned", df |-> f]
RaisedCall == [kind |-> "raised", df |-> Frame(<<>>, <<>>)]
Result(out, shared) == [out |-> out, shared |-> shared]
Store(shared, local) == [shared |-> shared, local |-> local]

\* bool(v) of an argument that is None or a str
Truthy(v) == IsStr(v) /\ v.s # <<>>

\* df.copy(): a new frame with the same labels and cells
DfCopy(f) == Frame(f.cols, f.rows)

GenderIs(g, gender) == IsStr(g) /\ Lower(g.s) = Lower(gender)

\* df['gender_from_name'].str.lower() == target_gender.lower()
GenderMask(f, gender) ==
  {r \in 1..Len(f.rows) : GenderIs(Cell(f, f.rows[r], "gender_from_name"), gender)}

Unparsed == [ok |-> FALSE, lo |-> 0, hi |-> 0, range |-> FALSE]

\* (low - 0.5, high + 0.5, range); a float() that failed gives (None, None, False)
IntervalOf(low, high, range) ==
  IF low.ok /\ high.ok
    THEN [ok |-> TRUE, lo |-> low.n - 50, hi |-> high.n + 50, range |-> range]
    ELSE Unparsed

PlusHalf(f) == [ok |-> f.ok, n |-> f.n + 50]

\* float(x) + 0.5 if x.endswith('.') else float(x)
HalfSize(x) == IF EndsWith(x, ".") THEN PlusHalf(FloatOfStr(x)) ELSE FloatOfStr(x)

\* one side of a range: x.replace('.', '').strip(), then the line above
RangePart(p) == HalfSize(Strip(RemoveChar(p, ".")))

\* the branch for '-' in size_str; low, high = ... needs exactly two parts
RangeSize(parts) ==
  IF Len(parts) = 2 THEN IntervalOf(RangePart(parts[1]), RangePart(parts[2]), TRUE)
  ELSE Unparsed

\* val of the other branch
SingleValue(s) ==
  IF EndsWith(s, ".") THEN PlusHalf(FloatOfStr(RemoveChar(s, "."))) ELSE FloatOfStr(s)

\* _parse_size: a missing value, and '-' in anything but a str, give no size
ParseSize(v) ==
  IF IsNull(v) \/ ~IsStr(v) THEN Unparsed
  ELSE IF "-" \in Range(v.s) THEN RangeSize(Split(v.s, "-"))
  ELSE IntervalOf(SingleValue(v.s), SingleValue(v.s), FALSE)

SizeOfRow(f, r) == ParseSize(Cell(f, f.rows[r], "my_fields.size"))
SizeMinCell(p) == IF p.ok THEN Num(p.lo) ELSE None
SizeMaxCell(p) == IF p.ok THEN Num(p.hi) ELSE None

\* the three columns df[['size_min', 'size_max', 'is_range']] receives
WithSizeColumns(f) ==
  SetCol(SetCol(SetCol(f,
    "size_min", [r \in 1..Len(f.rows) |-> SizeMinCell(SizeOfRow(f, r))]),
    "size_max", [r \in 1..Len(f.rows) |-> SizeMaxCell(SizeOfRow(f, r))]),
    "is_range", [r \in 1..Len(f.rows) |-> Bool(SizeOfRow(f, r).range)])

\* a plausible slip: the size columns are assigned on self.df as well
AssignSizeColumnsShared(st) == Store(WithSizeColumns(st.shared), WithSizeColumns(st.local))

\* df[['size_min', 'size_max', 'is_range']] = ...: df is the working frame
AssignSizeColumns(st) == Store(st.shared, WithSizeColumns(st.local))

InInterval(lo, hi, t) == lo.t = "num" /\ hi.t = "num" /\ lo.n <= t /\ hi.n >= t

\* size_mask
SizeMask(f, t) ==
  {r \in 1..Len(f.rows) :
     InInterval(Cell(f, f.rows[r], "size_min"), Cell(f, f.rows[r], "size_max"), t)}

\* the try block of _filter_by_size, on the frame that carries the size columns
FilterBySize(f, target_size) ==
  IF Float(target_size).ok
    THEN FilterRows(f, SizeMask(f, Float(target_size).n))
    ELSE EmptyLike(f)

W_narrow == <<"n","a","r","r","o","w">>
W_medium == <<"m","e","d","i","u","m">>
W_medium_regular == <<"m","e","d","i","u","m"," ","(","r","e","g","u","l","a","r",")">>
W_regular == <<"r","e","g","u","l","a","r">>
W_wide == <<"w","i","d","e">>
W_extra_wide == <<"e","x","t","r","a"," ","w","i","d","e">>

\* width_compatibility
WidthKeys == {W_narrow, W_medium, W_wide, W_extra_wide}
WidthExact(k) ==
  CASE k = W_narrow -> {W_narrow}
    [] k = W_medium -> {W_medium_regular, W_regular}
    [] k = W_wide -> {W_wide}
    [] k = W_extra_wide -> {W_extra_wide}
    [] OTHER -> {}
WidthCompatible(k) ==
  CASE k = W_narrow -> {W_medium_regular, W_regular}
    [] k = W_medium -> {}
    [] k = W_wide -> {W_medium_regular, W_extra_wide}
    [] k = W_extra_wide -> {W_wide}
    [] OTHER -> {}

\* valid_widths
ValidWidths(k) == WidthExact(k) \cup WidthCompatible(k)

\* _filter_by_width
FilterByWidth(f, target_width) ==
  FilterRows(f, {r \in 1..Len(f.rows) :
                   Lower(StrOf(Cell(f, f.rows[r], "my_fields.width")))
                     \in ValidWidths(Lower(target_width))})

\* str(row[...]).lower() of the vendor and of the canonical model
VendorOf(f, row) == Lower(StrOf(Cell(f, row, "vendor")))
ModelOf(f, row) == Lower(StrOf(CellOr(f, row, "custom.model", Str(<<>>))))

\* any(x.lower() in text for x in subs)
AnyIn(subs, text) == \E i \in 1..Len(subs) : Contains(text, Lower(subs[i]))

BrandMatches(brands, vendor) == {i \in 1..Len(brands) : Lower(brands[i].brand) = vendor}
HasBrand(brands, vendor) == BrandMatches(brands, vendor) # {}
\* the first preference, in dict order, whose key is the vendor
FirstBrand(brands, vendor) == brands[Least(BrandMatches(brands, vendor))]

\* the two tests under brand.lower() == vendor
PrefAccepts(pref, model) ==
  /\ (pref.models # <<>> => AnyIn(pref.models, model))
  /\ (pref.exclude # <<>> => ~AnyIn(pref.exclude, model))

\* _check_brand
CheckBrand(f, row, brands) ==
  /\ HasBrand(brands, VendorOf(f, row))
  /\ PrefAccepts(FirstBrand(brands, VendorOf(f, row)), ModelOf(f, row))

\* _filter_by_brand on a frame with rows
FilterByBrand(f, brands) ==
  FilterRows(f, {r \in 1..Len(f.rows) : CheckBrand(f, f.rows[r], brands)})

(***************************************************************************)
(* _score_products.  The points are the literals of _compute_score.        *)
(***************************************************************************)
SizeRangePoints == 40
SizeExactPoints == 50
SizeHalfPoints == 45
WidthExactPoints == 30
WidthCompatiblePoints == 20
BrandPoints == 50
ModelPoints == 20
ColorPoints == 20
ColorStep == 5

Abs(x) == IF x < 0 THEN 0 - x ELSE x

\* size_val = float(row['size_min']) + 0.5 against the target
SingleSizePoints(size_val, t) ==
  IF Abs(size_val - t) < 1 THEN SizeExactPoints
  ELSE IF Abs(size_val - t) = 50 THEN SizeHalfPoints
  ELSE 0

\* the size block, for a numeric target t
SizeScore(f, row, t) ==
  IF Cell(f, row, "is_range").n = 1
    THEN IF Cell(f, row, "size_min").n <= t /\ t <= Cell(f, row, "size_max").n
           THEN SizeRangePoints ELSE 0
    ELSE SingleSizePoints(Cell(f, row, "size_min").n + 50, t)

\* whether the instance has an attribute width_compatibility: the table is a
\* local variable of _filter_by_width and nothing assigns self.width_compatibility
HasWidthCompatibility == FALSE

WidthOf(f, row) == Lower(StrOf(CellOr(f, row, "my_fields.width", Str(<<>>))))

\* the width block once self.width_compatibility could be read
WidthPoints(width, k) ==
  IF k \notin WidthKeys THEN 0
  ELSE IF width \in WidthExact(k) THEN WidthExactPoints
  ELSE IF width \in WidthCompatible(k) THEN WidthCompatiblePoints
  ELSE 0

WidthScore(f, row, target_width) ==
  IF Truthy(target_width) THEN WidthPoints(WidthOf(f, row), Lower(target_width.s)) ELSE 0

\* the points of the preference the loop stops at
PrefPoints(pref, model) ==
  BrandPoints + (IF pref.models # <<>> /\ AnyIn(pref.models, model) THEN ModelPoints ELSE 0)

\* the brand/model block
BrandScore(f, row, brands) ==
  IF HasBrand(brands, VendorOf(f, row))
    THEN PrefPoints(FirstBrand(brands, VendorOf(f, row)), ModelOf(f, row))
    ELSE 0

\* [c.strip().lower() for c in str(row['custom.color']).split('/')]
CellColors(v) == {Lower(Strip(c)) : c \in Range(Split(StrOf(v), "/"))}

ColorHits(colors, prefs) == {i \in 1..Len(prefs) : Lower(prefs[i]) \in colors}

\* 20 - (i * 5) for the first preferred colour the row has; i counts from 0
ColorPointsAt(hits) == IF hits = {} THEN 0 ELSE ColorPoints - (Least(hits) - 1) * ColorStep

\* the colour block
ColorScore(f, row, prefs) ==
  IF prefs # <<>> /\ ~IsNull(CellOr(f, row, "custom.color", None))
    THEN ColorPointsAt(ColorHits(CellColors(Cell(f, row, "custom.color")), prefs))
    ELSE 0

\* _compute_score raises on every row: a target size that is not a number is
\* compared with, or subtracted from, a float; a target width makes it read
\* self.width_compatibility
ScoreRaises(q) == q.size.t # "num" \/ (Truthy(q.width) /\ ~HasWidthCompatibility)

\* _compute_score where it returns
ComputeScore(f, row, q) ==
  SizeScore(f, row, q.size.n) + WidthScore(f, row, q.width)
    + BrandScore(f, row, q.brands) + ColorScore(f, row, q.colors)

ScoreOf(f, row) == Cell(f, row, "score").n
QuantityOf(f, row) == Cell(f, row, "quantity").n

\* a plausible slip: sort_values(['score'], ...), the quantity left out
OutranksByScore(f, a, b) == ScoreOf(f, a) > ScoreOf(f, b)

\* row a is placed before row b by ['score', 'quantity'] both descending
Outranks(f, a, b) ==
  \/ ScoreOf(f, a) > ScoreOf(f, b)
  \/ ScoreOf(f, a) = ScoreOf(f, b) /\ QuantityOf(f, a) > QuantityOf(f, b)

RECURSIVE InsertRow(_, _, _)
InsertRow(f, sorted, row) ==
  IF sorted = <<>> THEN <<row>>
  ELSE IF Outranks(f, row, Head(sorted)) THEN <<row>> \o sorted
  ELSE <<Head(sorted)>> \o InsertRow(f, Tail(sorted), row)

RECURSIVE SortRows(_, _, _)
SortRows(f, rows, acc) ==
  IF rows = <<>> THEN acc ELSE SortRows(f, Tail(rows), InsertRow(f, acc, Head(rows)))

\* df.sort_values(['score', 'quantity'], ascending=[False, False]): rows that
\* tie on both keys keep their order
SortValues(f) == Frame(f.cols, SortRows(f, f.rows, <<>>))

\* df['score'] = df.apply(_compute_score, axis=1)
WithScore(f, q) ==
  SetCol(f, "score", [r \in 1..Len(f.rows) |-> Num(ComputeScore(f, f.rows[r], q))])

\* _score_products.  On a frame without rows df.apply(..., axis=1) gives a
\* frame, not a column: the assignment raises or leaves an empty column,
\* by the pandas installed
ScoreProducts(f, q, lb) ==
  IF f.rows = <<>>
    THEN IF lb = "strict" THEN RaisedCall ELSE Returned(SetCol(f, "score", <<>>))
  ELSE IF ScoreRaises(q) THEN RaisedCall
  ELSE Returned(SortValues(WithScore(f, q)))

Min(a, b) == IF a <= b THEN a ELSE b

\* df.head(n): the first n rows, all but the last -n when n is negative
DfHead(f, n) ==
  IF n >= 0 THEN Frame(f.cols, SubSeq(f.rows, 1, Min(n, Len(f.rows))))
  ELSE Frame(f.cols, SubSeq(f.rows, 1, Len(f.rows) + n))

\* return df.head(top_k)
HeadOfScored(scored, q) ==
  IF scored.kind = "raised" THEN RaisedCall ELSE Returned(DfHead(scored.df, q.top_k))

\* step 5
ScoreAndSort(st, q, lb) ==
  Result(HeadOfScored(ScoreProducts(st.local, q, lb), q), st.shared)

\* step 4.  df[df.apply(_check_brand, axis=1)] on a frame without rows: the
\* mask is a frame, which raises or selects nothing, by the pandas installed
ApplyBrandFilter(st, q, lb) ==
  IF q.brands = <<>> THEN ScoreAndSort(st, q, lb)
  ELSE IF st.local.rows = <<>>
    THEN IF lb = "strict" THEN Result(RaisedCall, st.shared) ELSE ScoreAndSort(st, q, lb)
  ELSE ScoreAndSort(Store(st.shared, FilterByBrand(st.local, q.brands)), q, lb)

\* step 3
ApplyWidthFilter(st, q, lb) ==
  IF Truthy(q.width)
    THEN ApplyBrandFilter(Store(st.shared, FilterByWidth(st.local, q.width.s)), q, lb)
    ELSE ApplyBrandFilter(st, q, lb)

\* if df.empty: return df
AfterSizeFilter(st, q, lb) ==
  IF st.local.rows = <<>> THEN Result(Returned(st.local), st.shared)
  ELSE ApplyWidthFilter(st, q, lb)

\* the rest of _filter_by_size once the size columns are assigned
ApplySizeFilter(st, q, lb) ==
  AfterSizeFilter(Store(st.shared, FilterBySize(st.local, q.size)), q, lb)

\* step 2
ProcessSizes(st, q, lb) ==
  IF st.local.rows = <<>> THEN Result(Returned(EmptyLike(st.local)), st.shared)
  ELSE ApplySizeFilter(AssignSizeColumns(st), q, lb)

\* step 1.  df['gender_from_name'] is a column only when the label occurs
\* once; otherwise it is a frame, which has no .str
ApplyGenderFilter(st, q, lb) ==
  IF ~OneCol(st.local, "gender_from_name") THEN Result(RaisedCall, st.shared)
  ELSE ProcessSizes(Store(st.shared,
         FilterRows(st.local, GenderMask(st.local, q.gender))), q, lb)

\* recommend(): what it returns or that it raised, and self.df afterwards
Recommend(shared, q, lb) == ApplyGenderFilter(Store(shared, DfCopy(shared)), q, lb)

(***************************************************************************)
(* The inputs models are run on: texts, fetched records and queries.       *)
(***************************************************************************)
T_MensRun == <<"M","e","n","'","s"," ","R","u","n">>
T_MensGo == <<"M","e","n","'","s"," ","G","o">>
T_WomensRun == <<"W","o","m","e","n","'","s"," ","R","u","n">>
T_KidsRun == <<"K","i","d","s","'"," ","R","u","n">>
T_Listing == <<"G","o",","," ","R","e","d","/","B","l","u","e",","," ","9">>
T_WomensX == <<"W","o","m","e","n","'","s"," ","X">>
T_Asics == <<"A","s","i","c","s">>
T_ASICS == <<"A","S","I","C","S">>
T_Hoka == <<"H","o","k","a">>
T_Gel30 == <<"G","e","l"," ","3","0">>
T_Gel == <<"G","e","l">>
T_One == <<"O","n","e">>
T_30 == <<"3","0">>
T_BlueGrey == <<"B","l","u","e","/","G","r","e","y">>
T_White == <<"W","h","i","t","e">>
T_Blue == <<"B","l","u","e">>
T_Wide == <<"W","i","d","e">>
T_ExtraWide == <<"E","x","t","r","a"," ","W","i","d","e">>
T_Regular == <<"R","e","g","u","l","a","r">>
T_mens == <<"m","e","n","'","s">>
T_Womens == <<"W","o","m","e","n","'","s">>
T_Mens == <<"M","e","n","s">>
T_9to10 == <<"9","-","1","0">>
T_9dot == <<"9",".">>
T_9 == <<"9">>
T_9p5 == <<"9",".","5">>
T_x == <<"x">>
T_9dto10d == <<"9",".","-","1","0",".">>
T_9p5to10 == <<"9",".","5","-","1","0">>
T_9sp10 == <<"9"," ","-"," ","1","0">>
T_abc == <<"a","b","c">>
T_9to10to11 == <<"9","-","1","0","-","1","1">>
T_neg9 == <<"-","9">>
T_10 == <<"1","0">>
T_10dot == <<"1","0",".">>

Entry(k, v) == [k |-> k, v |-> v]
\* options / metadata texts: blank, malformed, an object, a list, a number
BlankText == JsonText(<<" ">>, "blank", <<>>)
BadText == JsonText(<<"{">>, "bad", <<>>)
ObjectText(o) == JsonText(<<"{">>, "object", o)
ListText == JsonText(<<"[">>, "list", <<>>)
NumberText == Val("str", <<"7">>, 7, <<>>, <<>>, "number")

Product(id, name, qty, vendor, options, metadata) ==
  [product_id |-> Num(id), product_name |-> name, quantity |-> Num(qty),
   vendor |-> Str(vendor), options |-> options, metadata |-> metadata]

Meta(color, model, size, width) ==
  ObjectText(<<Entry("custom.color", Str(color)), Entry("custom.model", Str(model)),
               Entry("my_fields.size", Str(size)), Entry("my_fields.width", Str(width))>>)

P_A == Product(1, Str(T_MensRun), 2, T_Asics, BlankText,
               Meta(T_BlueGrey, T_Gel30, T_9to10, T_Wide))
P_B == Product(2, Str(T_MensRun), 1, T_ASICS, ObjectText(<<Entry("Size", Str(T_9))>>),
               Meta(T_White, T_Gel30, T_9dot, T_ExtraWide))
\* the metadata names a size only: colour, model and width are None
P_C == Product(3, Str(T_MensGo), 3, T_Hoka, Dict(<<>>),
               ObjectText(<<Entry("my_fields.size", Str(T_9))>>))
P_D == Product(4, Str(T_WomensRun), 1, T_Hoka, BlankText,
               Meta(T_White, T_One, T_9, T_Regular))
P_E == Product(5, Str(T_MensRun), 1, T_Asics,
               ObjectText(<<Entry("Department", Str(T_Mens))>>),
               Meta(T_Blue, T_Gel, T_9, T_Wide))
P_F == Product(6, Str(T_MensRun), 1, T_Asics, ListText, BadText)
P_G == Product(7, Str(T_KidsRun), 1, T_Hoka, NumberText, ListText)
P_H == Product(8, None, 1, T_Hoka, BadText, None)
P_I == Product(9, Str(T_MensRun), 1, T_Asics,
               ObjectText(<<Entry("product_name", Str(T_WomensX))>>), NumberText)
P_J == Product(10, Str(T_Listing), 1, T_Hoka, None,
               Dict(<<Entry("my_fields.size", Str(T_9))>>))

\* the longest batch, and the largest top_k, the recommender is run on
MaxRows == 2
MaxTopK == 2
\* the longest batch the normaliser alone is run on
MaxBatch == 2

RecProducts == {P_A, P_B, P_C, P_D, P_E}
ConcProducts == {P_A, P_C, P_D}
NormProducts == RecProducts \cup {P_F, P_G, P_H, P_I, P_J}

\* the batches of at most n records of S, no record fetched twice
Batches(S, n) ==
  {b \in UNION {[1..k -> S] : k \in 0..n} :
     \A i \in 1..Len(b) : \A j \in 1..Len(b) : i # j => b[i] # b[j]}

Pref(brand, models, exclude) == [brand |-> brand, models |-> models, exclude |-> exclude]
BrandChoices ==
  { <<>>,
    <<Pref(T_Asics, <<T_Gel>>, <<>>)>>,
    <<Pref(T_Hoka, <<T_One>>, <<>>)>>,
    <<Pref(T_ASICS, <<>>, <<T_30>>), Pref(T_Hoka, <<>>, <<>>)>> }

Queries ==
  [gender : {T_mens, T_Womens},
   size : {Num(950), Num(925), Str(T_9p5), Str(T_x)},
   width : {None, Str(T_Wide)},
   brands : BrandChoices,
   colors : {<<>>, <<T_White, T_Blue>>},
   top_k : {0 - 1} \cup (0..MaxTopK)]

\* the queries the concurrent callers choose from
ConcQueries ==
  {q \in Queries :
     /\ q.size \in {Num(950), Str(T_x)}
     /\ q.brands \in {<<>>, <<Pref(T_Hoka, <<T_One>>, <<>>)>>}
     /\ q.colors = <<>>
     /\ q.top_k = MaxTopK
     /\ (q.gender = T_Womens => q.size = Num(950) /\ q.brands = <<>>)
     /\ (q.width # None => q.gender = T_mens /\ q.size = Num(950) /\ q.brands = <<>>)}

SizeTexts ==
  {None, Str(<<>>), Str(T_9), Str(T_9dot), Str(T_9p5), Str(T_10), Str(T_10dot),
   Str(T_9to10), Str(T_9dto10d), Str(T_9p5to10), Str(T_9sp10), Str(T_abc),
   Str(T_9to10to11), Str(T_neg9), Num(900)}
SizeTargets ==
  {Num(850), Num(900), Num(950), Num(1000), Num(1050), Num(1100), Num(9500),
   Str(T_9p5), Str(T_x)}

(***************************************************************************)
(* The state machine.                                                      *)
(***************************************************************************)
NoFrame == Frame(<<>>, <<>>)
NoQuery == [gender |-> <<>>, size |-> None, width |-> None, brands |-> <<>>,
            colors |-> <<>>, top_k |-> 0]
NoOut == [kind |-> "none", df |-> NoFrame]
NoCall == [q |-> NoQuery, out |-> NoOut]
Callers == {1, 2}
Idle == [c \in Callers |-> [pc |-> "idle", q |-> NoQuery, work |-> NoFrame, out |-> NoOut]]
NoSize == [text |-> None, target |-> None, phase |-> "off", assigned |-> NoFrame,
           kept |-> NoFrame]

Libs == {"strict", "lenient"}

InitWith(batches) ==
  /\ raw \in batches
  /\ lib \in Libs
  /\ ctor = "new"
  /\ self_df = NoFrame
  /\ snapshot = NoFrame
  /\ last = NoCall
  /\ calls = Idle
  /\ sz = NoSize

Init == InitWith(Batches(RecProducts, MaxRows))

\* __init__: self.df = self._load_data(...); when _preprocess_data raises
\* nothing is assigned
Construct ==
  /\ ctor = "new"
  /\ \E p \in {PreprocessData(LoadFrame(raw))} :
       /\ ctor' = IF p.ok THEN "ok" ELSE "raised"
       /\ self_df' = IF p.ok THEN p.df ELSE NoFrame
       /\ snapshot' = IF p.ok THEN p.df ELSE NoFrame
  /\ UNCHANGED <<raw, lib, last, calls, sz>>

\* one recommend() call, start to end.  A call leaves nothing behind that a
\* later call reads but self.df, so one call is followed from each table;
\* calls that follow and overlap one another are followed under SpecConc
Call ==
  /\ ctor = "ok"
  /\ last = NoCall
  /\ \E q \in Queries : \E r \in {Recommend(self_df, q, lib)} :
       /\ last' = [q |-> q, out |-> r.out]
       /\ self_df' = r.shared
  /\ UNCHANGED <<raw, lib, ctor, snapshot, calls, sz>>

Next == Construct \/ Call

Spec == Init /\ [][Next]_vars

\* concurrent callers: a call takes its copy of self.df (line 196) ...
Begin(c) ==
  /\ ctor = "ok"
  /\ calls[c].pc \in {"idle", "done"}
  /\ \E q \in ConcQueries :
       calls' = [calls EXCEPT ![c] =
                   [pc |-> "copied", q |-> q, work |-> DfCopy(self_df), out |-> NoOut]]
  /\ UNCHANGED <<raw, lib, ctor, self_df, snapshot, last, sz>>

\* ... and later runs the rest of recommend() on it
Finish(c) ==
  /\ calls[c].pc = "copied"
  /\ \E r \in {ApplyGenderFilter(Store(self_df, calls[c].work), calls[c].q, lib)} :
       /\ calls' = [calls EXCEPT ![c] =
                      [pc |-> "done", q |-> calls[c].q, work |-> NoFrame, out |-> r.out]]
       /\ self_df' = r.shared
  /\ UNCHANGED <<raw, lib, ctor, snapshot, last, sz>>

NextConc == Construct \/ \E c \in Callers : Begin(c) \/ Finish(c)

InitConc == InitWith(Batches(ConcProducts, MaxRows))

SpecConc == InitConc /\ [][NextConc]_vars

\* the normaliser alone, on batches that hold malformed records
InitNorm == InitWith(Batches(NormProducts, MaxBatch))

NextNorm == Construct

SpecNorm == InitNorm /\ [][NextNorm]_vars

\* _filter_by_size alone, on a frame of one row
InitSize ==
  /\ raw = <<>>
  /\ lib = "lenient"
  /\ ctor = "new"
  /\ self_df = NoFrame
  /\ snapshot = NoFrame
  /\ last = NoCall
  /\ calls = Idle
  /\ \E text \in SizeTexts : \E target \in SizeTargets :
       sz = [text |-> text, target |-> target, phase |-> "new", assigned |-> NoFrame,
             kept |-> NoFrame]

SizeFrame(text) == Frame(<<"my_fields.size">>, << <<text>> >>)

FilterSize ==
  /\ sz.phase = "new"
  /\ \E f \in {WithSizeColumns(SizeFrame(sz.text))} :
       sz' = [sz EXCEPT !.phase = "done", !.assigned = f,
                        !.kept = FilterBySize(f, sz.target)]
  /\ UNCHANGED <<raw, lib, ctor, self_df, snapshot, last, calls>>

NextSize == FilterSize

SpecSize == InitSize /\ [][NextSize]_vars

(***************************************************************************)
(* Properties.  The outcome examined is that of the latest call (Spec), of *)
(* the finished calls (SpecConc), of the constructor (SpecNorm) and of the *)
(* size step (SpecSize).                                                   *)
(***************************************************************************)
Res == last.out.df
Returns == last.out.kind = "returned"
RowsOf(f) == 1..Len(f.rows)
IdOf(f, row) == Cell(f, row, "product_id").n

\* C1: recommend never raises: every call ends by returning a result,
\* whatever the table and the query.
C1_NeverRaises == last.out.kind # "raised"

\* C2: every result recommend returns carries the score column, also when
\* the result has no rows.
C2_ScoreColumn == Returns => HasCol(Res, "score")

\* C3: the number of rows returned is at most top_k, and a negative top_k
\* yields an empty result.
C3_AtMostLimit ==
  Returns => IF last.q.top_k < 0 THEN Res.rows = <<>> ELSE Len(Res.rows) <= last.q.top_k

\* rows a, b of a result may stand in this order: a has the higher score, or
\* the same score and at least the quantity of b
C4_MayPrecede(sa, qa, sb, qb) == sa > sb \/ (sa = sb /\ qa >= qb)

C4_InOrder(f) ==
  \A i \in RowsOf(f) : i < Len(f.rows) =>
    C4_MayPrecede(ScoreOf(f, f.rows[i]), QuantityOf(f, f.rows[i]),
                  ScoreOf(f, f.rows[i + 1]), QuantityOf(f, f.rows[i + 1]))

\* the rows of the table, with their size bounds, that pass every filter of q
C4_Passes(f, r, q) ==
  /\ Float(q.size).ok
  /\ GenderIs(Cell(f, f.rows[r], "gender_from_name"), q.gender)
  /\ r \in SizeMask(f, Float(q.size).n)
  /\ (Truthy(q.width) =>
        Lower(StrOf(Cell(f, f.rows[r], "my_fields.width"))) \in ValidWidths(Lower(q.width.s)))
  /\ (q.brands # <<>> => CheckBrand(f, f.rows[r], q.brands))
C4_Survivors(f, q) == {r \in RowsOf(f) : C4_Passes(f, r, q)}
C4_Ids(f, rs) == {IdOf(f, f.rows[r]) : r \in rs}

\* no survivor left out would have to stand before a row of the result
C4_NoneOutranks(res, f, q) ==
  \A r \in C4_Survivors(f, q) : \A i \in RowsOf(res) :
    IdOf(f, f.rows[r]) \in C4_Ids(res, RowsOf(res))
    \/ C4_MayPrecede(ScoreOf(res, res.rows[i]), QuantityOf(res, res.rows[i]),
                     ComputeScore(f, f.rows[r], q), QuantityOf(f, f.rows[r]))

C4_FirstRows(res, f, q) ==
  /\ C4_Ids(res, RowsOf(res)) \subseteq C4_Ids(f, C4_Survivors(f, q))
  /\ Cardinality(C4_Ids(res, RowsOf(res))) = Len(res.rows)
  /\ (q.top_k >= 0 => Len(res.rows) = Min(q.top_k, Cardinality(C4_Survivors(f, q))))
  /\ (res.rows # <<>> => C4_NoneOutranks(res, f, q))

\* C4: in every returned list the scores are non-increasing and rows of equal
\* score are in non-increasing quantity order; the rows returned are the
\* first top_k rows of that ordering of all the rows that passed the
\* filters: each is a survivor, none twice, min(top_k, survivors) of them
\* for top_k >= 0, and no survivor left out outranks a row returned.
C4_SortedPrefix ==
  Returns => C4_InOrder(Res) /\ C4_FirstRows(Res, WithSizeColumns(snapshot), last.q)

\* C4's case: two rows of equal score came back by descending quantity, in
\* the opposite of their order in the table.
C4_Witness ==
  /\ Returns
  /\ Len(Res.rows) = 2
  /\ ScoreOf(Res, Res.rows[1]) = ScoreOf(Res, Res.rows[2])
  /\ QuantityOf(Res, Res.rows[1]) > QuantityOf(Res, Res.rows[2])
  /\ Len(snapshot.rows) = 2
  /\ IdOf(snapshot, snapshot.rows[1]) = IdOf(Res, Res.rows[2])

\* x contains one of subs; a missing (null) text contains none
C5_ContainsAny(v, subs) == IsStr(v) /\ AnyIn(subs, Lower(v.s))

C5_BrandOk(f, row, pref) ==
  /\ (pref.models # <<>> =>
        C5_ContainsAny(CellOr(f, row, "custom.model", None), pref.models))
  /\ (pref.exclude # <<>> =>
        ~C5_ContainsAny(CellOr(f, row, "custom.model", None), pref.exclude))

C5_Recheck(f, row, q) ==
  /\ GenderIs(Cell(f, row, "gender_from_name"), q.gender)
  /\ Float(q.size).ok
  /\ InInterval(CellOr(f, row, "size_min", None), CellOr(f, row, "size_max", None),
                Float(q.size).n)
  /\ (Truthy(q.width) =>
        Lower(StrOf(Cell(f, row, "my_fields.width"))) \in ValidWidths(Lower(q.width.s)))
  /\ (q.brands # <<>> =>
        /\ HasBrand(q.brands, VendorOf(f, row))
        /\ C5_BrandOk(f, row, FirstBrand(q.brands, VendorOf(f, row))))

\* C5: every row of a result satisfies every filter of the query when it is
\* checked again: gender, size interval, width set, and the brand preference
\* with its required and excluded model substrings, where a row without a
\* canonical model contains no substring.
C5_RowsSatisfyFilters == Returns => \A i \in RowsOf(Res) : C5_Recheck(Res, Res.rows[i], last.q)

\* the weights of the specification's table, times 8
C6_SizeWeight(f, row, t) ==
  IF Cell(f, row, "is_range").n = 1 THEN 150
  ELSE IF Abs(Cell(f, row, "size_min").n + 50 - t) < 1 THEN 250
  ELSE IF Abs(Cell(f, row, "size_min").n + 50 - t) = 50 THEN 175
  ELSE 0
C6_WidthWeight(width, k) ==
  IF width \in WidthExact(k) THEN 100 ELSE IF width \in WidthCompatible(k) THEN 50 ELSE 0
C6_BrandWeight(pref, model) ==
  200 + (IF pref.models # <<>> /\ AnyIn(pref.models, model) THEN 200 ELSE 0)
C6_ColorWeight(hits) == IF hits = {} THEN 0 ELSE 50 - 10 * (Least(hits) - 1)

C6_Weight(f, row, q) ==
  C6_SizeWeight(f, row, q.size.n)
  + (IF Truthy(q.width) THEN C6_WidthWeight(WidthOf(f, row), Lower(q.width.s)) ELSE 0)
  + (IF HasBrand(q.brands, VendorOf(f, row))
       THEN C6_BrandWeight(FirstBrand(q.brands, VendorOf(f, row)), ModelOf(f, row)) ELSE 0)
  + (IF q.colors # <<>> /\ ~IsNull(CellOr(f, row, "custom.color", None))
       THEN C6_ColorWeight(ColorHits(CellColors(Cell(f, row, "custom.color")), q.colors))
       ELSE 0)

\* C6: the score of every returned row is the sum of the four components of
\* the specification's weight table times one positive factor k: any two
\* rows of a result have scores in the ratio of their table sums, and a row
\* scores 0 exactly when its table sum is 0.
C6_UniformScale ==
  (Returns /\ HasCol(Res, "score")) =>
    \A i \in RowsOf(Res) : \A j \in RowsOf(Res) :
      /\ ScoreOf(Res, Res.rows[i]) * C6_Weight(Res, Res.rows[j], last.q)
           = ScoreOf(Res, Res.rows[j]) * C6_Weight(Res, Res.rows[i], last.q)
      /\ (ScoreOf(Res, Res.rows[i]) = 0) = (C6_Weight(Res, Res.rows[i], last.q) = 0)

C7_Columns == {"size_min", "size_max", "is_range", "score"}

\* C7: recommend never changes the table the recommender holds: after any
\* sequence or interleaving of calls self.df has the rows, columns and
\* values _load_data returned, none of size_min, size_max, is_range, score
\* among them, and every finished call's outcome is the outcome of the same
\* query run alone on that table.
C7_TableUnchanged ==
  ctor = "ok" =>
    /\ self_df = snapshot
    /\ \A c \in C7_Columns : ~HasCol(self_df, c)
    /\ \A c \in Callers :
         calls[c].pc = "done" => calls[c].out = Recommend(snapshot, calls[c].q, lib).out

\* C7's case: a call that assigned the size columns to its frame and
\* returned rows has finished while another call holds its copy.
C7_Witness ==
  /\ calls[1].pc = "done"
  /\ calls[1].out.kind = "returned"
  /\ calls[1].out.df.rows # <<>>
  /\ HasCol(calls[1].out.df, "size_min")
  /\ calls[2].pc = "copied"
  /\ calls[2].work.rows # <<>>

\* C8: _preprocess_data is total and keeps the rows: for every raw batch it
\* returns, without raising, a table with one row per fetched record.
C8_TotalRowPreserving ==
  /\ ctor # "raised"
  /\ (ctor = "ok" => Len(self_df.rows) = Len(raw))

C9_Vocabulary == Range(GenderTokens) \cup {Unknown}

\* C9: after normalisation every row has exactly one derived-gender
\* attribute, one of Men's, Women's, Unisex, Kids', Unknown, equal to the
\* vocabulary match on the record's raw product name, whatever keys its
\* options hold.
C9_OneGenderFromName ==
  ctor = "ok" =>
    /\ OneCol(self_df, "gender_from_name")
    /\ \A r \in RowsOf(self_df) :
         /\ IsStr(Cell(self_df, self_df.rows[r], "gender_from_name"))
         /\ Cell(self_df, self_df.rows[r], "gender_from_name").s \in C9_Vocabulary
         /\ Cell(self_df, self_df.rows[r], "gender_from_name") = GetGender(raw[r].product_name)

\* a part of a range read by the half-size convention: a trailing dot is .5
C10_Part(p) ==
  IF EndsWith(p, ".") THEN PlusHalf(FloatOfStr(RemoveChar(p, "."))) ELSE FloatOfStr(p)
C10_Parts(s) == [i \in 1..Len(Split(s, "-")) |-> C10_Part(Strip(Split(s, "-")[i]))]
C10_IsRange(v) ==
  /\ IsStr(v) /\ "-" \in Range(v.s)
  /\ Len(C10_Parts(v.s)) = 2
  /\ C10_Parts(v.s)[1].ok /\ C10_Parts(v.s)[2].ok
C10_Row == sz.assigned.rows[1]
C10_Kept == sz.kept.rows # <<>>

\* C10: a hyphenated size text is read part by part, a part ending in a dot
\* as its number plus 0.5: the interval is [low - 0.5, high + 0.5] with
\* is_range true; the size filter keeps the row exactly when size_min <=
\* target <= size_max, and never a row whose size is missing or unparsable.
C10_RangeHalfSizes ==
  sz.phase = "done" =>
    /\ (C10_IsRange(sz.text) =>
          /\ Cell(sz.assigned, C10_Row, "size_min") = Num(C10_Parts(sz.text.s)[1].n - 50)
          /\ Cell(sz.assigned, C10_Row, "size_max") = Num(C10_Parts(sz.text.s)[2].n + 50)
          /\ Cell(sz.assigned, C10_Row, "is_range") = Bool(TRUE))
    /\ (Float(sz.target).ok =>
          C10_Kept = InInterval(Cell(sz.assigned, C10_Row, "size_min"),
                                Cell(sz.assigned, C10_Row, "size_max"), Float(sz.target).n))
    /\ (IsNull(Cell(sz.assigned, C10_Row, "size_min")) => ~C10_Kept)

====
